---------------------------- MODULE Spec2Model ----------------------------
(***************************************************************************)
(* The CTX batch of moov-io/ach as vendored by wadearnold/api:             *)
(* BatchCTX.Validate and BatchCTX.Create (batchCTX.go), with the shared    *)
(* Batch engine they call (verify, build, ValidTranCodeForServiceClassCode,*)
(* addendaFieldInclusion, CATXAddendaRecordsField), which is not vendored  *)
(* and is modelled from the specification's section 4.4.                   *)
(*                                                                         *)
(* Representation.                                                         *)
(*  - A Go pointer that may be nil (Header, Control) is a record with a    *)
(*    `present` flag.                                                      *)
(*  - entry.Addenda05 is a slice of which the code reads only the length;  *)
(*    the field Addenda05 of an entry holds len(entry.Addenda05).          *)
(*  - The recorded addenda count is a fixed-width text sub-field: a tuple  *)
(*    of four one-character strings, read with Atoi.                       *)
(*  - An entry hash does not fit TLC's 32-bit integers: it is kept as two  *)
(*    base-10^5 limbs, [hi, lo] standing for hi * 10^5 + lo.               *)
(*  - An error value is a record [kind, field, codes, nums]; Nil is Go's   *)
(*    nil error.                                                           *)
(*                                                                         *)
(* The fake-data loop of the test harness (cmd/apitest/main.go, lines 109  *)
(* to 165) is modelled next to the batch, in variables of its own.         *)
(*  - The goroutines started by the loop are anonymous and run the same    *)
(*    code: `goroutines` counts them per position.                         *)
(*  - Of the iterations slice the harness reads only the length and        *)
(*    appends: `iterations` holds len(iterations).  The append is a load   *)
(*    of the slice followed by a store of the longer slice; `loaded` is    *)
(*    the bag of lengths loaded and not yet stored.                        *)
(*  - `loopI` is the loop's variable i; `nonNil` counts the iterate calls   *)
(*    that returned an iteration.                                          *)
(***************************************************************************)
EXTENDS Integers, Sequences, FiniteSets, Bags, TLC

VARIABLES Header, Control, Entries, lastOp, ret, log

VARIABLES pc, flagFakeIterations, loopI, gate, wg, mu, iterations,
          goroutines, loaded, nonNil

batchVars == <<Header, Control, Entries, lastOp, ret, log>>

harnessVars == <<pc, flagFakeIterations, loopI, gate, wg, mu, iterations,
                 goroutines, loaded, nonNil>>

vars == <<batchVars, harnessVars>>

\* ------------------------------------------------------------ bounds
MaxEntries == 2
MaxHashEntries == 11
\* The largest number of iterations asked of the harness.
MaxFakeIterations == 11

\* --------------------------------------------------------- constants
\* The capacity of the four-digit addenda-records field.
CTXAddendaMax == 9999
\* The slots of the harness's gate.
GateSize == 10
\* One limb of an entry hash, so that two limbs hold 10 digits.
Limb == 10 ^ 5

CTX == "CTX"
PPD == "PPD"

MixedDebitsAndCredits == "MixedDebitsAndCredits"
CreditsOnly == "CreditsOnly"
DebitsOnly == "DebitsOnly"

\* ------------------------------------------------------------ errors
Nil == [kind |-> "nil", field |-> "", codes |-> <<>>, nums |-> <<>>]

Error(field, kind, codes, nums) ==
    [kind |-> kind, field |-> field, codes |-> codes, nums |-> nums]

\* ----------------------------------------------------- record model
NilHeader ==
    [present |-> FALSE, StandardEntryClassCode |-> "", ServiceClassCode |-> ""]

NewBatchHeader(sec, scc) ==
    [present |-> TRUE, StandardEntryClassCode |-> sec, ServiceClassCode |-> scc]

ZeroHash == [hi |-> 0, lo |-> 0]

NilControl ==
    [present |-> FALSE, EntryAddendaCount |-> 0, EntryHash |-> ZeroHash,
     TotalDebit |-> 0, TotalCredit |-> 0]

NewBatchControl ==
    [present |-> TRUE, EntryAddendaCount |-> 0, EntryHash |-> ZeroHash,
     TotalDebit |-> 0, TotalCredit |-> 0]

\* The transaction codes of the model, by the side of the ledger they post to.
DebitCodes ==
    {"CheckingDebit", "CheckingPrenoteDebit", "SavingsPrenoteDebit",
     "SavingsReturnNOCDebit", "GLPrenoteDebit"}

CreditCodes ==
    {"CheckingCredit", "CheckingPrenoteCredit", "SavingsPrenoteCredit",
     "GLPrenoteCredit", "LoanPrenoteCredit"}

NewEntryDetail(code, routing, amount, n05, recorded, a02) ==
    [TransactionCode |-> code, RoutingNumber |-> routing, Amount |-> amount,
     TraceNumber |-> 0, Addenda05 |-> n05, CATXAddendaRecords |-> recorded,
     Addenda02 |-> a02]

\* -------------------------------------------------- text conversion
Digits == <<"0", "1", "2", "3", "4", "5", "6", "7", "8", "9">>

IsDigit(c) == \E i \in 1..10 : Digits[i] = c

DigitVal(c) == (CHOOSE i \in 1..10 : Digits[i] = c) - 1

RECURSIVE DecimalValue(_, _)
DecimalValue(s, n) ==
    IF n = 0 THEN 0 ELSE 10 * DecimalValue(s, n - 1) + DigitVal(s[n])

\* strconv.Atoi: the value of a string of decimal digits; any other string
\* (empty, blank, letters) gives 0 and an error.
Atoi(s) ==
    IF Len(s) > 0 /\ \A i \in 1..Len(s) : IsDigit(s[i])
    THEN [val |-> DecimalValue(s, Len(s)), ok |-> TRUE]
    ELSE [val |-> 0, ok |-> FALSE]

\* The recorded addenda count as the entry holds it.
CATXAddendaRecordsField(entry) == entry.CATXAddendaRecords

\* ---------------------------------------------- the checks of Validate
\* Basic verification of the batch: Header and Control present.
verify(b) ==
    IF ~b.Header.present
    THEN Error("Header", "StructuralError", <<>>, <<>>)
    ELSE IF ~b.Control.present
    THEN Error("Control", "StructuralError", <<>>, <<>>)
    ELSE Nil

\* Mutant: PPD falls back to the CTX policy.
secCheckLenient(b) ==
    IF b.Header.StandardEntryClassCode \notin {CTX, PPD}
    THEN Error("StandardEntryClassCode", "ErrBatchSECType", <<CTX>>, <<>>)
    ELSE Nil

secCheck(b) ==
    IF b.Header.StandardEntryClassCode # CTX
    THEN Error("StandardEntryClassCode", "ErrBatchSECType", <<CTX>>, <<>>)
    ELSE Nil

\* Mutant: the capacity is one record short.
capacityCheckOffByOne(entry) ==
    IF entry.Addenda05 >= CTXAddendaMax
    THEN Error("AddendaCount", "ErrBatchAddendaCount", <<>>,
               <<entry.Addenda05, CTXAddendaMax>>)
    ELSE Nil

capacityCheck(entry) ==
    IF entry.Addenda05 > CTXAddendaMax
    THEN Error("AddendaCount", "ErrBatchAddendaCount", <<>>,
               <<entry.Addenda05, CTXAddendaMax>>)
    ELSE Nil

\* Mutant: an entry without Addenda05 records is not compared.
countCheckSkippingEmpty(entry) ==
    LET addendaRecords == Atoi(CATXAddendaRecordsField(entry)).val
    IN  IF entry.Addenda05 # 0 /\ entry.Addenda05 # addendaRecords
        THEN Error("AddendaCount", "ErrBatchExpectedAddendaCount", <<>>,
                   <<entry.Addenda05, addendaRecords>>)
        ELSE Nil

countCheck(entry) ==
    LET addendaRecords == Atoi(CATXAddendaRecordsField(entry)).val
    IN  IF entry.Addenda05 # addendaRecords
        THEN Error("AddendaCount", "ErrBatchExpectedAddendaCount", <<>>,
                   <<entry.Addenda05, addendaRecords>>)
        ELSE Nil

\* The codes of the switch of Validate.
ForbiddenCodes ==
    {"CheckingPrenoteCredit", "CheckingPrenoteDebit", "SavingsPrenoteCredit",
     "SavingsReturnNOCDebit", "GLPrenoteCredit", "GLPrenoteDebit",
     "LoanPrenoteCredit"}

prenoteCheck(entry) ==
    IF entry.TransactionCode \in ForbiddenCodes
    THEN Error("Addendum", "ErrBatchTransactionCodeAddenda",
               <<entry.TransactionCode>>, <<>>)
    ELSE Nil

\* The transaction code is legal for the Service Class Code of the batch.
ValidTranCodeForServiceClassCode(b, entry) ==
    IF \/ /\ b.Header.ServiceClassCode = CreditsOnly
          /\ entry.TransactionCode \in DebitCodes
       \/ /\ b.Header.ServiceClassCode = DebitsOnly
          /\ entry.TransactionCode \in CreditCodes
    THEN Error("TransactionCode", "ErrBatchServiceClassTranCode",
               <<entry.TransactionCode, b.Header.ServiceClassCode>>, <<>>)
    ELSE Nil

\* Addenda field inclusion for (category, SEC code): a CTX entry carries
\* Addenda05 records only.
addendaFieldInclusion(b, entry) ==
    IF entry.Addenda02
    THEN Error("Addenda02", "ErrBatchAddendaCategory", <<"Addenda02">>, <<>>)
    ELSE Nil

\* Mutant: the transaction code is looked at before the addenda count.
entryChecksCodeFirst(b, entry) ==
    << [check |-> "capacity", err |-> capacityCheck(entry)],
       [check |-> "prenote", err |-> prenoteCheck(entry)],
       [check |-> "count", err |-> countCheck(entry)],
       [check |-> "serviceClass", err |-> ValidTranCodeForServiceClassCode(b, entry)],
       [check |-> "inclusion", err |-> addendaFieldInclusion(b, entry)] >>

\* The checks of one entry, in the order of the loop body.
entryChecks(b, entry) ==
    << [check |-> "capacity", err |-> capacityCheck(entry)],
       [check |-> "count", err |-> countCheck(entry)],
       [check |-> "prenote", err |-> prenoteCheck(entry)],
       [check |-> "serviceClass", err |-> ValidTranCodeForServiceClassCode(b, entry)],
       [check |-> "inclusion", err |-> addendaFieldInclusion(b, entry)] >>

\* Runs the checks cs of entry i from position k on; stops at the first error.
RECURSIVE runChecks(_, _, _, _)
runChecks(cs, i, k, done) ==
    IF k > Len(cs) THEN [err |-> Nil, log |-> done]
    ELSE LET ran == Append(done, [i |-> i, check |-> cs[k].check])
         IN  IF cs[k].err # Nil THEN [err |-> cs[k].err, log |-> ran]
             ELSE runChecks(cs, i, k + 1, ran)

\* for _, entry := range batch.Entries
RECURSIVE validateEntries(_, _, _)
validateEntries(b, i, done) ==
    IF i > Len(b.Entries) THEN [err |-> Nil, log |-> done]
    ELSE LET r == runChecks(entryChecks(b, b.Entries[i]), i, 1, done)
         IN  IF r.err # Nil THEN r ELSE validateEntries(b, i + 1, r.log)

\* The error Validate returns and the checks it ran.
validateResult(b) ==
    LET v == [i |-> 0, check |-> "verify"]
        s == [i |-> 0, check |-> "sec"]
    IN  IF verify(b) # Nil THEN [err |-> verify(b), log |-> <<v>>]
        ELSE IF secCheck(b) # Nil THEN [err |-> secCheck(b), log |-> <<v, s>>]
        ELSE validateEntries(b, 1, <<v, s>>)

\* --------------------------------------------------------- build
\* a + r modulo 10^10, on limbs.
addHash(h, r) ==
    LET lo == h.lo + (r % Limb)
        hi == h.hi + (r \div Limb) + (lo \div Limb)
    IN  [hi |-> hi % Limb, lo |-> lo % Limb]

RECURSIVE calculateEntryHash(_, _)
calculateEntryHash(entries, n) ==
    IF n = 0 THEN ZeroHash
    ELSE addHash(calculateEntryHash(entries, n - 1), entries[n].RoutingNumber)

RECURSIVE entryAddendaCount(_, _)
entryAddendaCount(entries, n) ==
    IF n = 0 THEN 0
    ELSE entryAddendaCount(entries, n - 1) + 1 + entries[n].Addenda05

RECURSIVE totalAmount(_, _, _)
totalAmount(entries, n, codes) ==
    IF n = 0 THEN 0
    ELSE totalAmount(entries, n - 1, codes)
         + (IF entries[n].TransactionCode \in codes THEN entries[n].Amount ELSE 0)

\* Trace numbers by position in the list.
sequenceEntries(entries) ==
    [i \in 1..Len(entries) |-> [entries[i] EXCEPT !.TraceNumber = i]]

\* Control recomputed from the entries.
buildControl(entries) ==
    [present |-> TRUE,
     EntryAddendaCount |-> entryAddendaCount(entries, Len(entries)),
     EntryHash |-> calculateEntryHash(entries, Len(entries)),
     TotalDebit |-> totalAmount(entries, Len(entries), DebitCodes),
     TotalCredit |-> totalAmount(entries, Len(entries), CreditCodes)]

\* build: structural verification, then sequence numbers and batch control.
build(b) ==
    IF verify(b) # Nil THEN [err |-> verify(b), batch |-> b]
    ELSE [err |-> Nil,
          batch |-> [b EXCEPT !.Entries = sequenceEntries(b.Entries),
                              !.Control = buildControl(b.Entries)]]

\* ------------------------------------------------ Validate and Create
\* Mutant: Validate tabulates the batch before it checks it.
ValidateTabulating(b) ==
    [err |-> validateResult(b).err, log |-> validateResult(b).log,
     batch |-> build(b).batch]

\* Mutant: Validate zeroes the recorded count of an entry without Addenda05.
ValidateReconciling(b) ==
    [err |-> validateResult(b).err, log |-> validateResult(b).log,
     batch |-> [b EXCEPT !.Entries =
                  [i \in 1..Len(b.Entries) |->
                      IF b.Entries[i].Addenda05 = 0
                      THEN [b.Entries[i] EXCEPT
                               !.CATXAddendaRecords = <<"0", "0", "0", "0">>]
                      ELSE b.Entries[i]]]]

\* Validate: its error, the checks it ran, and the batch as it leaves it.
Validate(b) ==
    [err |-> validateResult(b).err, log |-> validateResult(b).log, batch |-> b]

\* Mutant: the result of the trailing Validate is dropped.
CreateDroppingValidate(b) ==
    LET r == build(b)
    IN  IF r.err # Nil THEN [err |-> r.err, log |-> <<>>, batch |-> r.batch]
        ELSE [err |-> Nil, log |-> Validate(r.batch).log, batch |-> r.batch]

\* Mutant: build is not run.
CreateWithoutBuild(b) == Validate(b)

\* Mutant: a failed Validate puts the batch back as it was before build.
CreateRollingBack(b) ==
    LET r == build(b)
    IN  IF r.err # Nil THEN [err |-> r.err, log |-> <<>>, batch |-> r.batch]
        ELSE IF Validate(r.batch).err # Nil
        THEN [err |-> Validate(r.batch).err, log |-> Validate(r.batch).log,
              batch |-> b]
        ELSE Validate(r.batch)

\* Create: build, then Validate.
Create(b) ==
    LET r == build(b)
    IN  IF r.err # Nil THEN [err |-> r.err, log |-> <<>>, batch |-> r.batch]
        ELSE Validate(r.batch)

\* ------------------------------------------------- the caller's inputs
\* Recorded addenda counts as the four characters of the sub-field.
Field0000 == <<"0", "0", "0", "0">>
Field0001 == <<"0", "0", "0", "1">>
Field9999 == <<"9", "9", "9", "9">>
FieldBlank == <<" ", " ", " ", " ">>
FieldGarbled == <<"0", "0", "0", "x">>

\* The entries a caller builds from the field values of d.
EntriesOf(d) ==
    {NewEntryDetail(c, r, a, n, f, x) :
        c \in d.codes, r \in d.routings, a \in d.amounts,
        n \in d.lens, f \in d.recs, x \in d.a02s}

\* Build, mutate, rebuild: both sides of the ledger, with and without
\* addenda; the recorded count is right for one Addenda05 record only.
LifeInputs ==
    [codes |-> {"CheckingCredit", "CheckingDebit"},
     routings |-> {121042882},
     amounts |-> {10000},
     lens |-> {0, 1},
     recs |-> {Field0001},
     a02s |-> {FALSE}]

LifeHeaders ==
    {NilHeader, NewBatchHeader(CTX, MixedDebitsAndCredits),
     NewBatchHeader(CTX, CreditsOnly)}

\* Totals: two amounts on each side of the ledger.
TotalsInputs ==
    [codes |-> {"CheckingCredit", "CheckingDebit"},
     routings |-> {121042882},
     amounts |-> {10000, 2500},
     lens |-> {0, 1},
     recs |-> {Field0001},
     a02s |-> {FALSE}]

TotalsHeaders == {NewBatchHeader(CTX, MixedDebitsAndCredits)}

\* The checks of Validate: every check of an entry can fail, alone or with
\* the others; the addenda count sits on both sides of the capacity.
ChecksInputs ==
    [codes |-> {"CheckingCredit", "CheckingDebit", "CheckingPrenoteCredit"},
     routings |-> {121042882},
     amounts |-> {10000},
     lens |-> {CTXAddendaMax, CTXAddendaMax + 1},
     recs |-> {Field9999, Field0000},
     a02s |-> {FALSE, TRUE}]

ChecksHeaders ==
    {NewBatchHeader(CTX, MixedDebitsAndCredits), NewBatchHeader(CTX, CreditsOnly),
     NewBatchHeader(PPD, MixedDebitsAndCredits)}

\* The transaction codes: every prenote code, a forward code, and the
\* return/NOC code the switch of Validate names.
CodesInputs ==
    [codes |-> {"CheckingPrenoteCredit", "CheckingPrenoteDebit",
                "SavingsPrenoteCredit", "SavingsPrenoteDebit", "GLPrenoteCredit",
                "GLPrenoteDebit", "LoanPrenoteCredit", "SavingsReturnNOCDebit",
                "CheckingCredit"},
     routings |-> {121042882},
     amounts |-> {0},
     lens |-> {0},
     recs |-> {Field0000, FieldBlank, FieldGarbled},
     a02s |-> {FALSE}]

CodesHeaders ==
    {NewBatchHeader(CTX, MixedDebitsAndCredits), NewBatchHeader(CTX, CreditsOnly)}

\* The entry hash: routing numbers whose sum passes 10^10.
HashInputs ==
    [codes |-> {"CheckingCredit"},
     routings |-> {121042882, 999999999},
     amounts |-> {10000},
     lens |-> {0},
     recs |-> {Field0000},
     a02s |-> {FALSE}]

HashHeaders == {NewBatchHeader(CTX, MixedDebitsAndCredits)}

\* ----------------------------------------------------------- actions
\* No goroutine of the harness, at any position of the closure.
NoGoroutines ==
    [iterate |-> 0, lock |-> 0, append |-> 0, unlock |-> 0,
     gateDone |-> 0, wgDone |-> 0]

\* The harness's variables as declared, before the loop: the mutex
\* unlocked, the slice nil, the wait group and the gate unused.
HarnessDeclared ==
    /\ loopI = 0
    /\ gate = 0
    /\ wg = 0
    /\ mu = FALSE
    /\ iterations = 0
    /\ goroutines = NoGoroutines
    /\ loaded = EmptyBag
    /\ nonNil = 0

\* The harness is not run while a batch is exercised.
HarnessOff == pc = "off" /\ flagFakeIterations = 0 /\ HarnessDeclared

batch == [Header |-> Header, Control |-> Control, Entries |-> Entries]

\* The caller touched the batch: no call result is pending.
Touched ==
    /\ lastOp' = "Caller"
    /\ ret' = Nil
    /\ log' = <<>>
    /\ UNCHANGED harnessVars

\* A call returned r: the batch as the call left it, its error, its checks.
Returned(r) ==
    /\ Header' = r.batch.Header
    /\ Control' = r.batch.Control
    /\ Entries' = r.batch.Entries
    /\ ret' = r.err
    /\ log' = r.log
    /\ UNCHANGED harnessVars

\* NewBatchCTX(bh): a new Control, the header given, no entries.
NewBatchCTX(headers) ==
    /\ Header \in headers
    /\ Control = NewBatchControl
    /\ Entries = <<>>
    /\ lastOp = "New"
    /\ ret = Nil
    /\ log = <<>>

AddEntry(d, max) ==
    /\ Len(Entries) < max
    /\ \E e \in EntriesOf(d) : Entries' = Append(Entries, e)
    /\ Touched
    /\ UNCHANGED <<Header, Control>>

RemoveEntry ==
    /\ \E i \in 1..Len(Entries) :
          Entries' = SubSeq(Entries, 1, i - 1) \o SubSeq(Entries, i + 1, Len(Entries))
    /\ Touched
    /\ UNCHANGED <<Header, Control>>

SwapEntries ==
    /\ \E i \in 1..(Len(Entries) - 1) :
          /\ Entries[i] # Entries[i + 1]
          /\ Entries' = [Entries EXCEPT ![i] = Entries[i + 1], ![i + 1] = Entries[i]]
    /\ Touched
    /\ UNCHANGED <<Header, Control>>

SetAddenda05(d) ==
    /\ \E i \in 1..Len(Entries), n \in d.lens :
          /\ n # Entries[i].Addenda05
          /\ Entries' = [Entries EXCEPT ![i].Addenda05 = n]
    /\ Touched
    /\ UNCHANGED <<Header, Control>>

SetCATXAddendaRecords(d) ==
    /\ \E i \in 1..Len(Entries), f \in d.recs :
          /\ f # Entries[i].CATXAddendaRecords
          /\ Entries' = [Entries EXCEPT ![i].CATXAddendaRecords = f]
    /\ Touched
    /\ UNCHANGED <<Header, Control>>

SetControl ==
    /\ \E c \in {NilControl, NewBatchControl} : c # Control /\ Control' = c
    /\ Touched
    /\ UNCHANGED <<Header, Entries>>

CallValidate ==
    /\ lastOp' = "Validate"
    /\ Returned(Validate(batch))

CallCreate ==
    /\ lastOp' = "Create"
    /\ Returned(Create(batch))

\* ---------------------------------------------------- specifications
\* The life of a batch: entries appended, removed, reordered and changed
\* between calls of Create and Validate.
Init == NewBatchCTX(LifeHeaders) /\ HarnessOff

Next ==
    \/ AddEntry(LifeInputs, MaxEntries)
    \/ RemoveEntry
    \/ SwapEntries
    \/ SetAddenda05(LifeInputs)
    \/ CallValidate
    \/ CallCreate

Spec == Init /\ [][Next]_vars

\* Create on entries of different amounts.
InitTotals == NewBatchCTX(TotalsHeaders) /\ HarnessOff

NextTotals ==
    \/ AddEntry(TotalsInputs, MaxEntries)
    \/ RemoveEntry
    \/ SetAddenda05(TotalsInputs)
    \/ CallCreate

SpecTotals == InitTotals /\ [][NextTotals]_vars

\* Validate on batches whose entries fail any of its checks.
InitChecks == NewBatchCTX(ChecksHeaders) /\ HarnessOff

NextChecks ==
    \/ AddEntry(ChecksInputs, MaxEntries)
    \/ RemoveEntry
    \/ SetCATXAddendaRecords(ChecksInputs)
    \/ SetControl
    \/ CallValidate

SpecChecks == InitChecks /\ [][NextChecks]_vars

\* Validate on every transaction code.
InitCodes == NewBatchCTX(CodesHeaders) /\ HarnessOff

NextCodes ==
    \/ AddEntry(CodesInputs, MaxEntries)
    \/ RemoveEntry
    \/ CallValidate

SpecCodes == InitCodes /\ [][NextCodes]_vars

\* Create on enough entries for the entry hash to wrap around.
InitHash == NewBatchCTX(HashHeaders) /\ HarnessOff

NextHash ==
    \/ AddEntry(HashInputs, MaxHashEntries)
    \/ CallCreate

SpecHash == InitHash /\ [][NextHash]_vars

\* ------------------------------------------------- the test harness
\* gate.Start() returns once one of the gate's slots is free.
gateStartUnbounded(taken) == TRUE

gateStart(taken) == taken < GateSize

\* mu.Lock() returns once the mutex is unlocked.
muLockUnguarded(locked) == TRUE

muLock(locked) == ~locked

\* wg.Wait() returns once the counter of the wait group is zero.
wgWait(counter) == counter = 0

\* One goroutine goes on from one position of the closure to the next.
Step(from, to) ==
    /\ goroutines[from] > 0
    /\ goroutines' = [goroutines EXCEPT ![from] = @ - 1, ![to] = @ + 1]

\* for i := 0; i < *flagFakeIterations; i++
LoopTest ==
    /\ pc = "for"
    /\ pc' = IF loopI < flagFakeIterations THEN "wg.Add" ELSE "wg.Wait"
    /\ UNCHANGED <<flagFakeIterations, loopI, gate, wg, mu, iterations,
                   goroutines, loaded, nonNil>>
    /\ UNCHANGED batchVars

\* wg.Add(1)
WgAdd ==
    /\ pc = "wg.Add"
    /\ wg' = wg + 1
    /\ pc' = "gate.Start"
    /\ UNCHANGED <<flagFakeIterations, loopI, gate, mu, iterations,
                   goroutines, loaded, nonNil>>
    /\ UNCHANGED batchVars

\* gate.Start()
GateStart ==
    /\ pc = "gate.Start"
    /\ gateStart(gate)
    /\ gate' = gate + 1
    /\ pc' = "go"
    /\ UNCHANGED <<flagFakeIterations, loopI, wg, mu, iterations,
                   goroutines, loaded, nonNil>>
    /\ UNCHANGED batchVars

\* go func() { ... }(), and the loop's i++: a new goroutine, which
\* begins with its call of iterate.
GoFunc ==
    /\ pc = "go"
    /\ goroutines' = [goroutines EXCEPT !.iterate = @ + 1]
    /\ loopI' = loopI + 1
    /\ pc' = "for"
    /\ UNCHANGED <<flagFakeIterations, gate, wg, mu, iterations,
                   loaded, nonNil>>
    /\ UNCHANGED batchVars

\* if iter := iterate(ctx, requestID); iter != nil: the call returns an
\* iteration, and the goroutine goes for the mutex, or nil, and the
\* goroutine goes past the append.
IterateReturns ==
    /\ \E iter \in {"iteration", "nil"} :
          IF iter # "nil"
          THEN Step("iterate", "lock") /\ nonNil' = nonNil + 1
          ELSE Step("iterate", "gateDone") /\ nonNil' = nonNil
    /\ UNCHANGED <<pc, flagFakeIterations, loopI, gate, wg, mu,
                   iterations, loaded>>
    /\ UNCHANGED batchVars

\* mu.Lock()
MuLock ==
    /\ muLock(mu)
    /\ Step("lock", "append")
    /\ mu' = TRUE
    /\ UNCHANGED <<pc, flagFakeIterations, loopI, gate, wg, iterations,
                   loaded, nonNil>>
    /\ UNCHANGED batchVars

\* iterations = append(iterations, iter), its first half: the slice is
\* loaded.
AppendLoad ==
    /\ goroutines.append > 0
    /\ goroutines' = [goroutines EXCEPT !.append = @ - 1]
    /\ loaded' = loaded (+) SetToBag({iterations})
    /\ UNCHANGED <<pc, flagFakeIterations, loopI, gate, wg, mu,
                   iterations, nonNil>>
    /\ UNCHANGED batchVars

\* iterations = append(iterations, iter), its second half: the slice
\* loaded, one element longer, is stored.
AppendStore ==
    /\ \E length \in BagToSet(loaded) :
          /\ iterations' = length + 1
          /\ loaded' = loaded (-) SetToBag({length})
    /\ goroutines' = [goroutines EXCEPT !.unlock = @ + 1]
    /\ UNCHANGED <<pc, flagFakeIterations, loopI, gate, wg, mu, nonNil>>
    /\ UNCHANGED batchVars

\* mu.Unlock()
MuUnlock ==
    /\ Step("unlock", "gateDone")
    /\ mu' = FALSE
    /\ UNCHANGED <<pc, flagFakeIterations, loopI, gate, wg, iterations,
                   loaded, nonNil>>
    /\ UNCHANGED batchVars

\* gate.Done()
GateDone ==
    /\ Step("gateDone", "wgDone")
    /\ gate' = gate - 1
    /\ UNCHANGED <<pc, flagFakeIterations, loopI, wg, mu, iterations,
                   loaded, nonNil>>
    /\ UNCHANGED batchVars

\* wg.Done(), after which the goroutine ends.
WgDone ==
    /\ goroutines.wgDone > 0
    /\ goroutines' = [goroutines EXCEPT !.wgDone = @ - 1]
    /\ wg' = wg - 1
    /\ UNCHANGED <<pc, flagFakeIterations, loopI, gate, mu, iterations,
                   loaded, nonNil>>
    /\ UNCHANGED batchVars

\* wg.Wait()
WgWait ==
    /\ pc = "wg.Wait"
    /\ wgWait(wg)
    /\ pc' = "verify"
    /\ UNCHANGED <<flagFakeIterations, loopI, gate, wg, mu, iterations,
                   goroutines, loaded, nonNil>>
    /\ UNCHANGED batchVars

\* if *flagVerifyTransfers != "" { if len(iterations) == 0 ... }: main
\* reads the slice.
VerifyTransfers ==
    /\ pc = "verify"
    /\ pc' = "done"
    /\ UNCHANGED <<flagFakeIterations, loopI, gate, wg, mu, iterations,
                   goroutines, loaded, nonNil>>
    /\ UNCHANGED batchVars

\* main with -fake-data, from the declarations of mu and iterations on,
\* for every number of iterations asked up to MaxFakeIterations.
InitHarness ==
    /\ NewBatchCTX({NilHeader})
    /\ pc = "for"
    /\ flagFakeIterations \in 0..MaxFakeIterations
    /\ HarnessDeclared

NextHarness ==
    \/ LoopTest
    \/ WgAdd
    \/ GateStart
    \/ GoFunc
    \/ IterateReturns
    \/ MuLock
    \/ AppendLoad
    \/ AppendStore
    \/ MuUnlock
    \/ GateDone
    \/ WgDone
    \/ WgWait
    \/ VerifyTransfers

SpecHarness == InitHarness /\ [][NextHarness]_vars

\* ------------------------------------------------------------ claims
\* What the claims speak of, stated apart from the code of Validate and build.

\* The prenote transaction codes: checking, savings, GL and loan.
PrenoteTransactionCodes ==
    {"CheckingPrenoteCredit", "CheckingPrenoteDebit", "SavingsPrenoteCredit",
     "SavingsPrenoteDebit", "GLPrenoteCredit", "GLPrenoteDebit",
     "LoanPrenoteCredit"}

\* The error kinds of the TransactionCodeError family.
TransactionCodeErrors ==
    {"ErrBatchTransactionCodeAddenda", "ErrBatchServiceClassTranCode"}

\* The order of the checks of one entry.
CheckOrder == <<"capacity", "count", "prenote", "serviceClass", "inclusion">>

CheckErr(b, entry, name) ==
    CASE name = "capacity" -> capacityCheck(entry)
      [] name = "count" -> countCheck(entry)
      [] name = "prenote" -> prenoteCheck(entry)
      [] name = "serviceClass" -> ValidTranCodeForServiceClassCode(b, entry)
      [] name = "inclusion" -> addendaFieldInclusion(b, entry)

\* Entry `entry` passes each of the five checks.
Passes(b, entry) ==
    \A k \in 1..Len(CheckOrder) : CheckErr(b, entry, CheckOrder[k]) = Nil

\* Validate gets as far as the loop over the entries.
ReachesEntries(b) == verify(b) = Nil /\ b.Header.StandardEntryClassCode = CTX

\* The recorded addenda count of an entry, as a number.
RecordedAddendaCount(entry) == Atoi(CATXAddendaRecordsField(entry)).val

\* The p-th check of Validate's loop: entry (p-1) \div 5 + 1, check (p-1) % 5 + 1.
EntryOf(p) == ((p - 1) \div Len(CheckOrder)) + 1
CheckOf(p) == CheckOrder[((p - 1) % Len(CheckOrder)) + 1]
Positions(b) == 1..(Len(b.Entries) * Len(CheckOrder))
FailsAt(b, p) == CheckErr(b, b.Entries[EntryOf(p)], CheckOf(p)) # Nil
HasFailure(b) == \E p \in Positions(b) : FailsAt(b, p)
FirstFailure(b) ==
    CHOOSE p \in Positions(b) :
        FailsAt(b, p) /\ \A q \in Positions(b) : q < p => ~FailsAt(b, q)

RECURSIVE SumSeq(_, _)
SumSeq(xs, n) == IF n = 0 THEN 0 ELSE SumSeq(xs, n - 1) + xs[n]

Sum(xs) == SumSeq(xs, Len(xs))

\* The last call was a Build that got past its structural verification.
Built == lastOp = "Create" /\ verify(batch) = Nil

\* C1: Validate never mutates the batch: every step that is a Validate call,
\* successful or not, leaves Header, Control and Entries as they were.
C1_ValidateNeverMutates ==
    [][lastOp' = "Validate" =>
          <<Header, Control, Entries>>' = <<Header, Control, Entries>>]_vars

\* A failing Validate has run on a batch that was built before.
C1_Witness ==
    /\ lastOp = "Validate"
    /\ ret.kind = "ErrBatchExpectedAddendaCount"
    /\ Control.EntryAddendaCount > 0

\* C2: Build returns no error exactly when Validate returns no error on the
\* batch as Build has left it.
C2_CreateIffValidate ==
    lastOp = "Create" => ((ret = Nil) <=> (validateResult(batch).err = Nil))

\* A Build that sequenced and tabulated the batch and then failed its Validate.
C2_Witness ==
    /\ lastOp = "Create"
    /\ ret # Nil
    /\ Len(Entries) > 0
    /\ \A i \in 1..Len(Entries) : Entries[i].TraceNumber = i

\* C3: a CTX batch fails Validate with a transaction-code error naming the
\* code of its first entry that has a prenote code, every entry before it
\* being valid and its addenda count being in order.
C3_PrenoteRejected ==
    (lastOp = "Validate" /\ ReachesEntries(batch)) =>
        \A i \in 1..Len(Entries) :
            (/\ Entries[i].TransactionCode \in PrenoteTransactionCodes
             /\ capacityCheck(Entries[i]) = Nil
             /\ countCheck(Entries[i]) = Nil
             /\ \A j \in 1..(i - 1) : Passes(batch, Entries[j]))
            => /\ ret.kind \in TransactionCodeErrors
               /\ ret.codes[1] = Entries[i].TransactionCode

\* C4: in an entry Validate gets to, 9999 Addenda05 records pass the capacity
\* check (no capacity error for that count, and Validate goes on to the count
\* check of that entry) and more than 9999 fail with the addenda-count error
\* carrying the count and 9999.
C4_CapacityBoundary ==
    (lastOp = "Validate" /\ ReachesEntries(batch)) =>
        \A i \in 1..Len(Entries) :
            (\A j \in 1..(i - 1) : Passes(batch, Entries[j])) =>
                /\ Entries[i].Addenda05 = 9999 =>
                      /\ ~(ret.kind = "ErrBatchAddendaCount" /\ ret.nums[1] = 9999)
                      /\ \E k \in 1..Len(log) : log[k] = [i |-> i, check |-> "count"]
                /\ Entries[i].Addenda05 > 9999 =>
                      ret = Error("AddendaCount", "ErrBatchAddendaCount", <<>>,
                                  <<Entries[i].Addenda05, 9999>>)

\* An entry of 9999 records validated, the next one of 10000 rejected.
C4_Witness ==
    /\ lastOp = "Validate"
    /\ Len(Entries) >= 2
    /\ Entries[1].Addenda05 = 9999
    /\ Passes(batch, Entries[1])
    /\ Entries[2].Addenda05 = 10000
    /\ ret.nums = <<10000, 9999>>

C6_FailFastOrder ==
    (lastOp = "Validate" /\ ReachesEntries(batch)) =>
        LET last == IF HasFailure(batch) THEN FirstFailure(batch)
                    ELSE Len(Entries) * Len(CheckOrder)
        IN  /\ SubSeq(log, 3, Len(log)) =
                  [p \in 1..last |-> [i |-> EntryOf(p), check |-> CheckOf(p)]]
            /\ ret = IF HasFailure(batch)
                     THEN CheckErr(batch, Entries[EntryOf(last)], CheckOf(last))
                     ELSE Nil

\* The first entry fails its count check and would fail the later checks too,
\* the second entry would fail the capacity check.
C6_Witness ==
    /\ lastOp = "Validate"
    /\ Len(Entries) >= 2
    /\ ret.kind = "ErrBatchExpectedAddendaCount"
    /\ prenoteCheck(Entries[1]) # Nil
    /\ addendaFieldInclusion(batch, Entries[1]) # Nil
    /\ capacityCheck(Entries[2]) # Nil

\* C7 as stated: whenever the Header's SEC code is not CTX, Validate fails
\* with the SEC-mismatch error, whatever the Control and the entries hold.
C7_SECCheckFirst ==
    (lastOp = "Validate" /\ Header.present /\ Header.StandardEntryClassCode # CTX)
        => ret.kind = "ErrBatchSECType"

\* C7 amended: the SEC-code match is the first check after the basic
\* verification: when that passes and the Header's SEC code is not CTX,
\* Validate fails with the SEC-mismatch error and checks no entry; when it
\* fails, Validate returns its error and checks nothing else.
C7_SECCheckAfterVerify ==
    lastOp = "Validate" =>
        /\ verify(batch) # Nil =>
              /\ ret = verify(batch)
              /\ log = <<[i |-> 0, check |-> "verify"]>>
        /\ (verify(batch) = Nil /\ Header.StandardEntryClassCode # CTX) =>
              /\ ret = Error("StandardEntryClassCode", "ErrBatchSECType", <<CTX>>, <<>>)
              /\ log = <<[i |-> 0, check |-> "verify"], [i |-> 0, check |-> "sec"]>>

\* A PPD header on a batch whose first entry would fail a check of its own.
C7_Witness ==
    /\ lastOp = "Validate"
    /\ ret.kind = "ErrBatchSECType"
    /\ Len(Entries) > 0
    /\ ~Passes(batch, Entries[1])

\* C8: after a Build (that got past its structural verification) the entry
\* hash is the sum of the routing numbers modulo 10^10: low limb the sum of
\* the low limbs modulo 10^5, high limb the sum of the high limbs plus the
\* carry modulo 10^5; 0 for no entry.
C8_EntryHash ==
    Built =>
        LET lows == [i \in 1..Len(Entries) |-> Entries[i].RoutingNumber % Limb]
            highs == [i \in 1..Len(Entries) |-> Entries[i].RoutingNumber \div Limb]
        IN  /\ Control.EntryHash.lo = Sum(lows) % Limb
            /\ Control.EntryHash.hi = (Sum(highs) + (Sum(lows) \div Limb)) % Limb
            /\ Entries = <<>> => Control.EntryHash = ZeroHash
            /\ Len(Entries) = 1 =>
                  Control.EntryHash = [hi |-> Entries[1].RoutingNumber \div Limb,
                                       lo |-> Entries[1].RoutingNumber % Limb]

\* A Build on entries whose routing numbers add up to 10^10 or more.
C8_Witness ==
    /\ Built
    /\ LET lows == [i \in 1..Len(Entries) |-> Entries[i].RoutingNumber % Limb]
           highs == [i \in 1..Len(Entries) |-> Entries[i].RoutingNumber \div Limb]
       IN  Sum(highs) + (Sum(lows) \div Limb) >= Limb

\* C9: after a Build (that got past its structural verification) the Control
\* totals are those of the current entries: one plus the number of Addenda05
\* per entry, the amounts of the debit entries, the amounts of the credit
\* entries; one CheckingCredit of 10000 with one Addenda05 gives 2, 10000, 0.
C9_ControlTotals ==
    Built =>
        LET n == Len(Entries)
            debit(i) == Entries[i].TransactionCode \in DebitCodes
            credit(i) == Entries[i].TransactionCode \in CreditCodes
        IN  /\ Control.EntryAddendaCount =
                  n + Sum([i \in 1..n |-> Entries[i].Addenda05])
            /\ Control.TotalDebit =
                  Sum([i \in 1..n |-> IF debit(i) THEN Entries[i].Amount ELSE 0])
            /\ Control.TotalCredit =
                  Sum([i \in 1..n |-> IF credit(i) THEN Entries[i].Amount ELSE 0])
            /\ (/\ n = 1
                /\ Entries[1].TransactionCode = "CheckingCredit"
                /\ Entries[1].Amount = 10000
                /\ Entries[1].Addenda05 = 1)
               => /\ Control.EntryAddendaCount = 2
                  /\ Control.TotalCredit = 10000
                  /\ Control.TotalDebit = 0

\* A Build on a debit of 2500 and a credit of 10000 with one Addenda05.
C9_Witness ==
    /\ Built
    /\ Len(Entries) = 2
    /\ Control.TotalDebit = 2500
    /\ Control.TotalCredit = 10000
    /\ Control.EntryAddendaCount = 3

\* C10: after a Build (that got past its structural verification) every
\* entry has a trace number, the numbers are strictly increasing along the
\* list and no two entries share one.
C10_TraceNumbers ==
    Built =>
        /\ \A i \in 1..Len(Entries) : Entries[i].TraceNumber > 0
        /\ \A i, j \in 1..Len(Entries) :
              i < j => Entries[i].TraceNumber < Entries[j].TraceNumber

\* A Build that sequenced two entries and then failed its Validate.
C10_Witness ==
    /\ Built
    /\ Len(Entries) >= 2
    /\ ret # Nil

\* The calls of the engine.
EngineCalls == {"Validate", "Create"}

\* C11: no error is swallowed: when the last Build or Validate met a failure
\* (a check it ran failed, or the recorded addenda count of an entry whose
\* count it compared could not be read as a number) it returned an error.
C11_NoErrorSwallowed ==
    lastOp \in EngineCalls =>
        \A k \in 1..Len(log) :
            (\/ /\ log[k].i > 0
                /\ CheckErr(batch, Entries[log[k].i], log[k].check) # Nil
             \/ /\ log[k].check = "count"
                /\ ~Atoi(CATXAddendaRecordsField(Entries[log[k].i])).ok)
            => ret # Nil

ExpectedControl(entries) ==
    LET n == Len(entries)
        lows == [i \in 1..n |-> entries[i].RoutingNumber % Limb]
        highs == [i \in 1..n |-> entries[i].RoutingNumber \div Limb]
        debits == [i \in 1..n |-> IF entries[i].TransactionCode \in DebitCodes
                                  THEN entries[i].Amount ELSE 0]
        credits == [i \in 1..n |-> IF entries[i].TransactionCode \in CreditCodes
                                   THEN entries[i].Amount ELSE 0]
    IN  [present |-> TRUE,
         EntryAddendaCount |-> n + Sum([i \in 1..n |-> entries[i].Addenda05]),
         EntryHash |-> [hi |-> (Sum(highs) + (Sum(lows) \div Limb)) % Limb,
                        lo |-> Sum(lows) % Limb],
         TotalDebit |-> Sum(debits),
         TotalCredit |-> Sum(credits)]

\* Control reflects the current Entries.
ControlCurrent == Control = ExpectedControl(Entries)

\* C13: when the Validate call at the end of Build fails, Build returns that
\* error and keeps what it computed: every entry has the trace number of its
\* position and every field of Control is that of the current entries.
C13_NoRollback ==
    (Built /\ ret # Nil) =>
        /\ ret = validateResult(batch).err
        /\ \A i \in 1..Len(Entries) : Entries[i].TraceNumber = i
        /\ ControlCurrent

\* A Build of a debit in a credits-only batch: Validate failed, totals stay.
C13_Witness ==
    /\ Built
    /\ ret.kind = "ErrBatchServiceClassTranCode"
    /\ Control.TotalDebit > 0

\* C14 as stated: in every state outside the execution of Build the Control
\* reflects the current Entries.
C14_ControlNeverStale == ControlCurrent

\* C14 amended: Control reflects the current Entries after every Build that
\* got past its structural verification; a Validate call on a batch whose
\* Control is current leaves it current; what the caller does to the entries
\* leaves Control as it was.
C14_ControlCurrentAfterBuild ==
    /\ [](Built => ControlCurrent)
    /\ [][(lastOp' = "Validate" /\ ControlCurrent) => ControlCurrent']_vars
    /\ [][lastOp' = "Caller" => Control' = Control]_vars

\* A Validate on a built batch with entries: Control is still current.
C14_Witness ==
    /\ lastOp = "Validate"
    /\ Len(Entries) > 0
    /\ ControlCurrent


\* ------------------------------------------------- the harness's claims
\* The goroutines that hold a slot of the gate: started, and not yet past
\* gate.Done().
SlotHolders ==
    goroutines.iterate + goroutines.lock + goroutines.append
        + BagCardinality(loaded) + goroutines.unlock + goroutines.gateDone

\* The goroutines started and not yet ended.
Live == SlotHolders + goroutines.wgDone

\* C15: with -fake-data, whatever the number of iterations asked, at most
\* 10 calls of iterate are in progress at any moment; the slots of the
\* gate taken are those of the goroutines started and not yet past
\* gate.Done() and the one main took for the goroutine it is about to
\* start, so an iteration starts with a slot taken for it and gives it
\* back when it ends; once wg.Wait() has returned no slot is taken.
C15_AtMostTenInProgress ==
    /\ goroutines.iterate <= GateSize
    /\ gate <= GateSize
    /\ gate = SlotHolders + (IF pc = "go" THEN 1 ELSE 0)
    /\ pc \in {"verify", "done"} => gate = 0

\* Ten calls of iterate in progress, and main held at gate.Start() with an
\* iteration more to start.
C15_Witness ==
    /\ pc = "gate.Start"
    /\ loopI < flagFakeIterations
    /\ gate = GateSize
    /\ goroutines.iterate = GateSize

\* C16: with -fake-data, when main reads the iterations slice every
\* iteration asked has been started and has ended, and the slice holds
\* one element for each call of iterate that returned an iteration; at no
\* moment does it hold more elements than such calls, nor more than the
\* iterations asked.
C16_IterationsComplete ==
    /\ pc \in {"verify", "done"} =>
           /\ loopI = flagFakeIterations
           /\ Live = 0
           /\ wg = 0
           /\ iterations = nonNil
    /\ iterations <= nonNil
    /\ nonNil <= loopI
    /\ loopI <= flagFakeIterations

\* Main about to read the slice, after more than the gate's slots of
\* iterations, some of which returned an iteration and some nil.
C16_Witness ==
    /\ pc = "verify"
    /\ flagFakeIterations > GateSize
    /\ iterations > 1
    /\ iterations < flagFakeIterations
====
